---------------------------- MODULE Spec2Model ----------------------------
(***************************************************************************)
(* Model of flavor_generator.py: the descriptor reconciliation sweep       *)
(* (update_yaml_descriptors), the factory patch (update_flavor_factory),   *)
(* the orchestration in main, and the pipe protocol of run_build_script.   *)
(***************************************************************************)
EXTENDS Integers, Sequences, FiniteSets, TLC

VARIABLES
    \* ---- update_yaml_descriptors ----
    disk,        \* file name -> document stored in the file
    before,      \* file name -> document stored when the current run started
    components,  \* the component list of the run
    idx,         \* position of the for loop in yaml_files
    pc,          \* "loop" | "dumping" | "returned" | "raised"
    data,        \* the loaded (and mutated) document while it is being dumped
    mem,         \* file name -> the in-memory document at the end of its loop body
    opened,      \* files opened with mode 'w' in the current run
    processed,   \* files whose reconciliation was carried out in the current run
    reported,    \* files named in a logger.error record of the current run
    cause,       \* which statement raised: "none" | "load" | "linters" | "dump"
    run,         \* 1 for the first call, 2 for the repeated call
    \* ---- update_flavor_factory ----
    fContent,    \* text of flavor_factory.py, a sequence of characters
    fFlavor,     \* --new-flavor
    fDesc,       \* --new-flavor-description, a sequence of characters
    fFirst,      \* the text as the first application left it
    fWrote,      \* per application: whether the file was written
    fRaised,     \* per application: whether the call raised
    fpc,         \* "idle" | "call" (the call is to run) | "ret" (it has ended)
    \* ---- main ----
    mpc,         \* the statement main is at: "schema" | "factory" | "descriptors"
                 \* | "build" | "docker" | "done" | "exit"
    schemaEnum,  \* enum_flavors of the schema file
    schemaOk,    \* whether the schema file can be read and has enum_flavors
    events,      \* the milestones of the run, in order
    mError,      \* the exception main caught
    exitStatus,  \* the status passed to sys.exit, -1 while none
    \* ---- run_build_script ----
    bpc,         \* "idle" | "reading" | "communicate" | "finished"
    child,       \* the build process: its writes, its position, its exit code
    pipes,       \* lines held by the stdout pipe and by the stderr pipe
    collected,   \* stdout lines logged and stderr lines collected by the parent
    returncode,  \* process.returncode, -1 while None
    \* ---- build_docker_image ----
    dpc,         \* "idle" | "reading" | "waiting" | "finished"
    dchild,      \* the docker process: lines still to write, exit code, alive
    dPipe,       \* lines held by the merged stdout/stderr pipe
    dReturn      \* return_code of process.wait(), -1 before

yamlVars == <<disk, before, components, idx, pc, data, mem, opened, processed,
              reported, cause, run>>

factoryVars == <<fContent, fFlavor, fDesc, fFirst, fWrote, fRaised, fpc>>

mainVars == <<mpc, schemaEnum, schemaOk, events, mError, exitStatus>>

buildVars == <<bpc, child, pipes, collected, returncode>>

dockerVars == <<dpc, dchild, dPipe, dReturn>>

vars == <<yamlVars, factoryVars, mainVars, buildVars, dockerVars>>

-----------------------------------------------------------------------------
(* Bounds of the model *)

\* linter entries in the whole store
MaxEntries == 2
\* copies of the target flavor an entry's descriptor_flavors may hold at start
MaxDup == 2

\* the flavor being reconciled (--new-flavor) and another flavor already in use
NewFlavor == "bio"
OtherFlavor == "all"

\* the files directory.glob('*.y*ml') returns, in the order it returns them
YamlFiles == <<"a.yml", "b.yaml">>
Files == {YamlFiles[i] : i \in 1..Len(YamlFiles)}

\* linter_name of the entry at each position of a document
LinterNames == <<"pylint", "eslint", "black">>
ComponentPool == {"pylint", "eslint"}

-----------------------------------------------------------------------------
(* Python list operations used by the code *)

\* x in list
Contains(list, x) == \E i \in 1..Len(list) : list[i] = x

\* list.remove(x): drops the first occurrence only
ListRemove(list, x) ==
    LET first == CHOOSE i \in 1..Len(list) :
                     list[i] = x /\ \A j \in 1..(i-1) : list[j] # x
    IN  [k \in 1..(Len(list)-1) |-> IF k < first THEN list[k] ELSE list[k+1]]

\* number of occurrences of x in list
Count(list, x) == Cardinality({i \in 1..Len(list) : list[i] = x})

\* the list without every occurrence of x, order kept
Without(list, x) == SelectSeq(list, LAMBDA y : y # x)

-----------------------------------------------------------------------------
(* Documents *)

\* A linter entry: kind "dict" or "scalar" (not a mapping); df_key says whether
\* the key descriptor_flavors is absent, holds null, or holds a list.
Entry(kind, hasName, name, dfKey, flavors) ==
    [kind |-> kind, has_name |-> hasName, linter_name |-> name,
     df_key |-> dfKey, descriptor_flavors |-> flavors]

\* A document: kind "dict", "scalar" (parses, but is no mapping), "unparseable"
\* (yaml.load raises) or "truncated" (opened with 'w' and not dumped: an empty
\* or cut-off file, which yaml.load reads as no mapping).
Doc(kind, lintersKey, linters, install, root) ==
    [kind |-> kind, linters_key |-> lintersKey, linters |-> linters,
     install |-> install, descriptor_flavors |-> root]

Truncated == Doc("truncated", "absent", <<>>, FALSE, <<>>)
NoData == Doc("none", "absent", <<>>, FALSE, <<>>)

Repeat(x, n) == [i \in 1..n |-> x]

FlavorLists ==
    {Repeat(NewFlavor, n) : n \in 0..MaxDup}
        \cup {<<OtherFlavor, NewFlavor>>, <<OtherFlavor>>}

EntryPool(i) ==
    {Entry("dict", TRUE, LinterNames[i], "list", l) : l \in FlavorLists}
        \cup {Entry("dict", TRUE, LinterNames[i], "absent", <<>>),
              Entry("dict", TRUE, LinterNames[i], "null", <<>>),
              Entry("dict", FALSE, "", "list", <<NewFlavor>>),
              Entry("scalar", FALSE, "", "absent", <<>>)}

AllEntries == UNION {EntryPool(i) : i \in 1..Len(LinterNames)}

EntrySeqs(n) ==
    {s \in [1..n -> AllEntries] : \A i \in 1..n : s[i] \in EntryPool(i)}

RootPool == {<<FALSE, <<>>>>, <<TRUE, <<>>>>, <<TRUE, <<NewFlavor>>>>}

DictDocs(n) ==
    {Doc("dict", "seq", s, r[1], r[2]) : s \in EntrySeqs(n), r \in RootPool}

MalformedDocs ==
    {Doc("unparseable", "absent", <<>>, FALSE, <<>>),
     Doc("scalar", "absent", <<>>, FALSE, <<>>),
     Doc("dict", "absent", <<>>, TRUE, <<>>),
     Doc("dict", "null", <<>>, TRUE, <<>>)}

DocPool == MalformedDocs \cup UNION {DictDocs(n) : n \in 0..MaxEntries}

TotalEntries(store) ==
    LET RECURSIVE Sum(_)
        Sum(i) == IF i = 0 THEN 0
                  ELSE Len(store[YamlFiles[i]].linters) + Sum(i - 1)
    IN  Sum(Len(YamlFiles))

Stores == {s \in [Files -> DocPool] : TotalEntries(s) <= MaxEntries}

-----------------------------------------------------------------------------
(* update_yaml_descriptors: the body of the for loop *)

\* Lines 142-155 with `modified = True` also set where line 144 adds the key.
ReconcileLinterMarksAddedKey(linter, comps, flavor) ==
    IF ~(linter.kind = "dict" /\ linter.has_name)
    THEN [linter |-> linter, modified |-> FALSE, raised |-> FALSE]
    ELSE LET added == linter.df_key = "absent"
             keyed == IF added
                      THEN [linter EXCEPT !.df_key = "list",
                                          !.descriptor_flavors = <<>>]
                      ELSE linter
         IN  IF keyed.df_key = "null"
             THEN [linter |-> keyed, modified |-> FALSE, raised |-> TRUE]
             ELSE IF keyed.linter_name \in comps
             THEN IF ~Contains(keyed.descriptor_flavors, flavor)
                  THEN [linter |-> [keyed EXCEPT !.descriptor_flavors =
                                        Append(keyed.descriptor_flavors, flavor)],
                        modified |-> TRUE, raised |-> FALSE]
                  ELSE [linter |-> keyed, modified |-> added, raised |-> FALSE]
             ELSE IF Contains(keyed.descriptor_flavors, flavor)
                  THEN [linter |-> [keyed EXCEPT !.descriptor_flavors =
                                        ListRemove(keyed.descriptor_flavors, flavor)],
                        modified |-> TRUE, raised |-> FALSE]
                  ELSE [linter |-> keyed, modified |-> added, raised |-> FALSE]

\* Lines 142-155 for one element of data['linters'].  The result holds the
\* entry as left in memory, whether `modified` was set, and whether the
\* statement raised (a descriptor_flavors that is no list).
ReconcileLinter(linter, comps, flavor) ==
    IF ~(linter.kind = "dict" /\ linter.has_name)
    THEN [linter |-> linter, modified |-> FALSE, raised |-> FALSE]
    ELSE LET keyed == IF linter.df_key = "absent"
                      THEN [linter EXCEPT !.df_key = "list",
                                          !.descriptor_flavors = <<>>]
                      ELSE linter
         IN  IF keyed.df_key = "null"
             THEN [linter |-> keyed, modified |-> FALSE, raised |-> TRUE]
             ELSE IF keyed.linter_name \in comps
             THEN IF ~Contains(keyed.descriptor_flavors, flavor)
                  THEN [linter |-> [keyed EXCEPT !.descriptor_flavors =
                                        Append(keyed.descriptor_flavors, flavor)],
                        modified |-> TRUE, raised |-> FALSE]
                  ELSE [linter |-> keyed, modified |-> FALSE, raised |-> FALSE]
             ELSE IF Contains(keyed.descriptor_flavors, flavor)
                  THEN [linter |-> [keyed EXCEPT !.descriptor_flavors =
                                        ListRemove(keyed.descriptor_flavors, flavor)],
                        modified |-> TRUE, raised |-> FALSE]
                  ELSE [linter |-> keyed, modified |-> FALSE, raised |-> FALSE]

\* Lines 139-155: the loop over data['linters'], stopping at a raise.
RECURSIVE ReconcileFrom(_, _, _, _, _)
ReconcileFrom(linters, i, comps, flavor, modified) ==
    IF i > Len(linters)
    THEN [linters |-> linters, modified |-> modified, raised |-> FALSE]
    ELSE LET r == ReconcileLinter(linters[i], comps, flavor)
         IN  IF r.raised
             THEN [linters |-> [linters EXCEPT ![i] = r.linter],
                   modified |-> modified, raised |-> TRUE]
             ELSE ReconcileFrom([linters EXCEPT ![i] = r.linter], i + 1, comps,
                                flavor, modified \/ r.modified)

\* Lines 136-155 for one document: load, then reconcile its linters.
ReconcileData(doc, comps, flavor) ==
    IF doc.kind = "unparseable"
    THEN [data |-> doc, modified |-> FALSE, raised |-> TRUE, cause |-> "load"]
    ELSE IF ~(doc.kind = "dict" /\ doc.linters_key # "absent")
    THEN [data |-> doc, modified |-> FALSE, raised |-> FALSE, cause |-> "none"]
    ELSE IF doc.linters_key = "null"
    THEN [data |-> doc, modified |-> FALSE, raised |-> TRUE, cause |-> "linters"]
    ELSE LET r == ReconcileFrom(doc.linters, 1, comps, flavor, FALSE)
         IN  [data |-> [doc EXCEPT !.linters = r.linters],
              modified |-> r.modified, raised |-> r.raised,
              cause |-> IF r.raised THEN "linters" ELSE "none"]

-----------------------------------------------------------------------------
(* update_yaml_descriptors as a state machine *)

InitYaml ==
    /\ disk \in Stores
    /\ before = disk
    /\ components \in SUBSET ComponentPool
    /\ idx = 1
    /\ pc = "loop"
    /\ data = NoData
    /\ mem = [f \in Files |-> NoData]
    /\ opened = {}
    /\ processed = {}
    /\ reported = {}
    /\ cause = "none"
    /\ run = 1

CurrentFile == YamlFiles[idx]

\* Lines 134-162, a document that needs no write: the loop moves on.
ProcessUnchanged ==
    /\ pc = "loop" /\ idx <= Len(YamlFiles)
    /\ LET r == ReconcileData(disk[CurrentFile], components, NewFlavor)
       IN  /\ ~r.raised /\ ~r.modified
           /\ mem' = [mem EXCEPT ![CurrentFile] = r.data]
    /\ processed' = processed \cup {CurrentFile}
    /\ idx' = idx + 1
    /\ UNCHANGED <<disk, before, components, pc, data, opened, reported, cause, run>>
    /\ UNCHANGED <<factoryVars, mainVars, buildVars, dockerVars>>

\* Lines 134-158, a modified document: file_path.open('w') truncates the file.
ProcessAndOpen ==
    /\ pc = "loop" /\ idx <= Len(YamlFiles)
    /\ LET r == ReconcileData(disk[CurrentFile], components, NewFlavor)
       IN  /\ ~r.raised /\ r.modified
           /\ mem' = [mem EXCEPT ![CurrentFile] = r.data]
           /\ data' = r.data
    /\ disk' = [disk EXCEPT ![CurrentFile] = Truncated]
    /\ opened' = opened \cup {CurrentFile}
    /\ processed' = processed \cup {CurrentFile}
    /\ pc' = "dumping"
    /\ UNCHANGED <<before, components, idx, reported, cause, run>>
    /\ UNCHANGED <<factoryVars, mainVars, buildVars, dockerVars>>

\* Lines 159-160: yaml.dump(data, file) runs to the end, the file is closed.
DumpCompletes ==
    /\ pc = "dumping"
    /\ disk' = [disk EXCEPT ![CurrentFile] = data]
    /\ data' = NoData
    /\ idx' = idx + 1
    /\ pc' = "loop"
    /\ UNCHANGED <<before, components, mem, opened, processed, reported, cause, run>>
    /\ UNCHANGED <<factoryVars, mainVars, buildVars, dockerVars>>

\* Lines 159, 163-165: yaml.dump raises (an I/O error while writing); the
\* except clause logs the file and re-raises.
DumpRaises ==
    /\ pc = "dumping"
    /\ data' = NoData
    /\ reported' = reported \cup {CurrentFile}
    /\ cause' = "dump"
    /\ pc' = "raised"
    /\ UNCHANGED <<disk, before, components, idx, mem, opened, processed, run>>
    /\ UNCHANGED <<factoryVars, mainVars, buildVars, dockerVars>>

\* Lines 136-155, 163-165: loading or iterating raises; logged and re-raised.
ProcessRaises ==
    /\ pc = "loop" /\ idx <= Len(YamlFiles)
    /\ LET r == ReconcileData(disk[CurrentFile], components, NewFlavor)
       IN  /\ r.raised
           /\ cause' = r.cause
    /\ reported' = reported \cup {CurrentFile}
    /\ pc' = "raised"
    /\ UNCHANGED <<disk, before, components, idx, data, mem, opened, processed, run>>
    /\ UNCHANGED <<factoryVars, mainVars, buildVars, dockerVars>>

\* Line 133: yaml_files is exhausted, the function returns.
Return ==
    /\ pc = "loop" /\ idx > Len(YamlFiles)
    /\ pc' = "returned"
    /\ UNCHANGED <<disk, before, components, idx, data, mem, opened, processed,
                   reported, cause, run>>
    /\ UNCHANGED <<factoryVars, mainVars, buildVars, dockerVars>>

\* The tool is run again with the same flavor and component list.
RunAgain ==
    /\ pc = "returned" /\ run = 1
    /\ run' = 2
    /\ before' = disk
    /\ idx' = 1
    /\ pc' = "loop"
    /\ mem' = [f \in Files |-> NoData]
    /\ opened' = {}
    /\ processed' = {}
    /\ reported' = {}
    /\ UNCHANGED <<disk, components, data, cause>>
    /\ UNCHANGED <<factoryVars, mainVars, buildVars, dockerVars>>

NextYaml ==
    \/ ProcessUnchanged
    \/ ProcessAndOpen
    \/ DumpCompletes
    \/ DumpRaises
    \/ ProcessRaises
    \/ Return
    \/ RunAgain

\* The sweep is not running.
IdleYaml ==
    /\ disk = [f \in Files |-> NoData]
    /\ before = disk
    /\ components = {}
    /\ idx = 1
    /\ pc = "idle"
    /\ data = NoData
    /\ mem = disk
    /\ opened = {}
    /\ processed = {}
    /\ reported = {}
    /\ cause = "none"
    /\ run = 1

\* The factory patch is not running.
IdleFactory ==
    /\ fContent = <<>>
    /\ fFlavor = NewFlavor
    /\ fDesc = <<>>
    /\ fFirst = <<>>
    /\ fWrote = <<>>
    /\ fRaised = <<>>
    /\ fpc = "idle"

NoError == [kind |-> "none", code |-> -1]

\* main is not running.
IdleMain ==
    /\ mpc = "idle"
    /\ schemaEnum = <<>>
    /\ schemaOk = TRUE
    /\ events = <<>>
    /\ mError = NoError
    /\ exitStatus = -1

\* No build process exists.
IdleBuild ==
    /\ bpc = "idle"
    /\ child = [script |-> <<>>, ip |-> 1, rc |-> 0, alive |-> FALSE]
    /\ pipes = [out |-> 0, err |-> 0]
    /\ collected = [out |-> 0, err |-> 0]
    /\ returncode = -1

\* No docker process exists.
IdleDocker ==
    /\ dpc = "idle"
    /\ dchild = [lines |-> 0, rc |-> 0, alive |-> FALSE]
    /\ dPipe = 0
    /\ dReturn = -1

-----------------------------------------------------------------------------
(* Properties of update_yaml_descriptors *)

Finished == pc \in {"returned", "raised"}

\* a linter entry as the data model has it: a mapping with a linter_name
IsLinterEntry(e) == e.kind = "dict" /\ e.has_name

Carries(e, flavor) == Contains(e.descriptor_flavors, flavor)

\* the flavor was inserted into or removed from some entry's descriptor_flavors
FlavorEdited(d0, d1) ==
    \E i \in 1..Len(d0.linters) :
        Count(d1.linters[i].descriptor_flavors, NewFlavor)
            # Count(d0.linters[i].descriptor_flavors, NewFlavor)

\* every linter entry of the document already has the desired membership
AlreadyMatches(d) ==
    \A i \in 1..Len(d.linters) :
        IsLinterEntry(d.linters[i]) =>
            (Carries(d.linters[i], NewFlavor) <=> d.linters[i].linter_name \in components)

\* a document the sweep can load and iterate without an exception
WellFormed(d) == ~ReconcileData(d, components, NewFlavor).raised

\* C1: a second run with the same flavor and component list, started after the
\* first run returned, marks no document as modified and opens no file for
\* writing.
C1_SecondRunWritesNothing == run = 2 => opened = {}

\* C2: after the sweep returns, in every document the linter entries that carry
\* the flavor are exactly the linter entries whose linter_name is in the
\* component list.
C2_SetEquivalence ==
    pc = "returned" =>
        \A f \in Files : \A i \in 1..Len(disk[f].linters) :
            LET e == disk[f].linters[i]
            IN  IsLinterEntry(e) =>
                    (Carries(e, NewFlavor) <=> e.linter_name \in components)

\* C3: after the sweep returns, the root descriptor_flavors of every document
\* with an install marker holds the flavor iff one of its linter entries
\* carries the flavor.
C3_RootFlag ==
    pc = "returned" =>
        \A f \in Files :
            (disk[f].kind = "dict" /\ disk[f].install) =>
                (Contains(disk[f].descriptor_flavors, NewFlavor)
                    <=> \E i \in 1..Len(disk[f].linters) :
                            /\ IsLinterEntry(disk[f].linters[i])
                            /\ Carries(disk[f].linters[i], NewFlavor))

\* C5: when the sweep ends because a document is malformed, every document
\* that is not malformed has still been reconciled in that run.
C5_SweepNotAborted ==
    (Finished /\ cause # "dump") =>
        \A f \in Files : WellFormed(before[f]) => f \in processed

\* C6: a file is opened for writing in a run iff the flavor was inserted into
\* or removed from one of its entries in that run; a document whose entries
\* already match is not opened, and a file that is not opened keeps its
\* content.
C6_WriteOnlyWhenDirty ==
    /\ opened \subseteq processed
    /\ \A f \in processed :
        /\ f \in opened <=> FlavorEdited(before[f], mem[f])
        /\ AlreadyMatches(before[f]) => f \notin opened
        /\ f \notin opened => disk[f] = before[f]

\* C6 witness: a run returned having rewritten one document and left another
\* document with a linter entry untouched.
C6_Witness ==
    /\ pc = "returned"
    /\ \E f, g \in Files :
        /\ f \in opened /\ disk[f] # before[f]
        /\ g \notin opened /\ Len(disk[g].linters) > 0

\* C7: a document that was written back differs from the loaded one only in
\* the target flavor: other flavors are kept in order, no key other than a
\* needed descriptor_flavors is added, entries without linter_name are as
\* loaded, and the root is as loaded.
C7_Frame ==
    \A f \in opened :
        disk[f].kind = "dict" =>
            /\ Len(disk[f].linters) = Len(before[f].linters)
            /\ disk[f].descriptor_flavors = before[f].descriptor_flavors
            /\ disk[f].install = before[f].install
            /\ \A i \in 1..Len(disk[f].linters) :
                LET e0 == before[f].linters[i]
                    e1 == disk[f].linters[i]
                IN  /\ Without(e1.descriptor_flavors, NewFlavor)
                           = Without(e0.descriptor_flavors, NewFlavor)
                    /\ e1.linter_name = e0.linter_name
                    /\ ~IsLinterEntry(e0) => e1 = e0
                    /\ (e0.df_key = "absent" /\ e0.linter_name \notin components)
                           => e1.df_key = "absent"

\* C8: when the run has failed, every file holds either its complete content
\* from before the run or its complete reconciled content.
C8_AtomicWrite ==
    pc = "raised" =>
        \A f \in Files :
            \/ disk[f] = before[f]
            \/ disk[f] = ReconcileData(before[f], components, NewFlavor).data


-----------------------------------------------------------------------------
(* Text of flavor_factory.py.  A text is a sequence of characters; the two   *)
(* phrases the code searches for, and words that hold no character the code  *)
(* looks at, are single elements.                                            *)

DefLine == "def list_megalinter_flavors():"
ReturnFlavors == "return flavors"
Quote == "\""
Newline == "\n"
Space == " "
Whitespace == {Space, Newline}

Spaces(n) == [i \in 1..n |-> Space]

StartsAt(s, sub, i) ==
    /\ i >= 1
    /\ i + Len(sub) - 1 <= Len(s)
    /\ \A k \in 1..Len(sub) : s[i + k - 1] = sub[k]

\* str.index / str.find from position `from`: the first position, 0 when absent
Find(s, sub, from) ==
    LET hits == {i \in from..Len(s) : StartsAt(s, sub, i)}
    IN  IF hits = {} THEN 0 ELSE CHOOSE i \in hits : \A j \in hits : i <= j

\* str.rfind: the last position, 0 when absent
RFind(s, sub) ==
    LET hits == {i \in 1..Len(s) : StartsAt(s, sub, i)}
    IN  IF hits = {} THEN 0 ELSE CHOOSE i \in hits : \A j \in hits : i >= j

\* str.rstrip(chars)
RECURSIVE RStrip(_, _)
RStrip(s, chars) ==
    IF s # <<>> /\ s[Len(s)] \in chars THEN RStrip(SubSeq(s, 1, Len(s) - 1), chars)
    ELSE s

\* s[:-n]
DropLast(s, n) == IF Len(s) <= n THEN <<>> ELSE SubSeq(s, 1, Len(s) - n)

\* re.match(r'\s+', s).group(), '' when there is no match
LeadingWhitespace(s) ==
    LET stops == {i \in 1..Len(s) : s[i] \notin Whitespace}
        stop == IF stops = {} THEN Len(s) + 1
                ELSE CHOOSE i \in stops : \A j \in stops : i <= j
    IN  SubSeq(s, 1, stop - 1)

\* The pattern \s+".+?": {.+?},?\n with re.DOTALL, tried at position p: the
\* position after the match, 0 when it does not match there.  \s+ takes the
\* whole run of whitespace (a quote must follow it), each .+? takes the
\* shortest text that lets the rest match, and ,? takes a comma when it can.
EntryMatchEnd(s, p) ==
    IF ~(p <= Len(s) /\ s[p] \in Whitespace) THEN 0
    ELSE
    LET stops == {i \in p..Len(s) : s[i] \notin Whitespace}
        q == IF stops = {} THEN 0 ELSE CHOOSE i \in stops : \A j \in stops : i <= j
    IN  IF q = 0 \/ s[q] # Quote THEN 0
        ELSE
        LET k == Find(s, <<Quote, ":", Space, "{">>, q + 2)
        IN  IF k = 0 THEN 0
            ELSE
            LET closes == {b \in (k + 5)..Len(s) :
                              /\ s[b] = "}"
                              /\ \/ StartsAt(s, <<Newline>>, b + 1)
                                 \/ StartsAt(s, <<",", Newline>>, b + 1)}
            IN  IF closes = {} THEN 0
                ELSE LET b == CHOOSE i \in closes : \A j \in closes : i <= j
                     IN  IF StartsAt(s, <<",", Newline>>, b + 1) THEN b + 3 ELSE b + 2

\* re.findall(...)[-1]: the last of the non-overlapping matches found scanning
\* from the left, as [from, to] (to exclusive); from = 0 when there is none.
RECURSIVE LastEntryMatch(_, _, _)
LastEntryMatch(s, p, last) ==
    IF p > Len(s) THEN last
    ELSE LET e == EntryMatchEnd(s, p)
         IN  IF e = 0 THEN LastEntryMatch(s, p + 1, last)
             ELSE LastEntryMatch(s, e, [from |-> p, to |-> e])

\* f'"{new_flavor}":'
FlavorMarkerSingleQuoted(flavor) == <<"'", flavor, "'", ":">>
FlavorMarker(flavor) == <<Quote, flavor, Quote, ":">>

\* f'{indent}"{new_flavor}": {{"label": "{new_flavor_description}"}},\n'
NewFlavorEntry(indent, flavor, desc) ==
    indent \o <<Quote, flavor, Quote, ":", Space, "{", Quote, "label", Quote, ":",
                Space, Quote>> \o desc \o <<Quote, "}", ",", Newline>>

\* update_flavor_factory, lines 79-122: the text written (or left), whether the
\* file was written and whether the call raised.
UpdateFlavorFactory(content, flavor, desc) ==
    LET unchanged == [content |-> content, wrote |-> FALSE, raised |-> FALSE]
        raise == [content |-> content, wrote |-> FALSE, raised |-> TRUE]
        start == Find(content, <<DefLine>>, 1)
    IN  IF start = 0 THEN raise
        ELSE
        LET end == Find(content, <<ReturnFlavors>>, start)
        IN  IF end = 0 THEN raise
            ELSE
            LET flavors_dict_str == SubSeq(content, start, end - 1)
            IN  IF Find(flavors_dict_str, FlavorMarker(flavor), 1) # 0 THEN unchanged
                ELSE
                LET m == LastEntryMatch(flavors_dict_str, 1, [from |-> 0, to |-> 0])
                IN  IF m.from = 0 THEN raise
                    ELSE
                    LET last_entry == SubSeq(flavors_dict_str, m.from, m.to - 1)
                        last_entry_pos == RFind(flavors_dict_str, last_entry)
                        indent == LeadingWhitespace(last_entry)
                        updated_flavors_str ==
                            SubSeq(flavors_dict_str, 1, last_entry_pos - 1)
                            \o RStrip(last_entry, {",", Newline}) \o <<",", Newline>>
                            \o NewFlavorEntry(indent, flavor, desc)
                            \o RStrip(SubSeq(flavors_dict_str,
                                             last_entry_pos + Len(last_entry),
                                             Len(flavors_dict_str)), Whitespace)
                            \o <<Newline>> \o DropLast(indent, 4)
                    IN  [content |-> SubSeq(content, 1, start - 1)
                                     \o updated_flavors_str
                                     \o <<ReturnFlavors, Newline>>
                                     \o SubSeq(content, end + 1, Len(content)),
                         wrote |-> TRUE, raised |-> FALSE]

-----------------------------------------------------------------------------
(* Factory sources and inputs of the factory patch *)

\* entries list_megalinter_flavors holds at start
MaxFactoryEntries == 2
\* characters of the description
MaxDescLen == 2
\* successive applications of update_flavor_factory
MaxApplications == 3

ExistingFlavors == <<"all", "ci_light", "python">>
FlavorNames == {"bio", "all"}
DescChars == {"d", Quote, ReturnFlavors, "}", ",", Newline}
Descriptions == UNION {[1..n -> DescChars] : n \in 0..MaxDescLen}

ExistingEntry(i, comma) ==
    Spaces(8) \o <<Quote, ExistingFlavors[i], Quote, ":", Space, "{", Quote,
                   "label", Quote, ":", Space, Quote, "d", Quote, "}">>
    \o (IF comma THEN <<",">> ELSE <<>>) \o <<Newline>>

RECURSIVE ExistingEntries(_, _, _)
ExistingEntries(i, n, lastComma) ==
    IF i > n THEN <<>>
    ELSE ExistingEntry(i, i < n \/ lastComma) \o ExistingEntries(i + 1, n, lastComma)

FactorySource(n, lastComma) ==
    <<"import", Newline, Newline, DefLine, Newline>>
    \o Spaces(4) \o <<"flavors = {", Newline>>
    \o ExistingEntries(1, n, lastComma)
    \o Spaces(4) \o <<"}", Newline>>
    \o Spaces(4) \o <<ReturnFlavors, Newline, Newline, "def other():", Newline>>

FactorySources ==
    {FactorySource(n, c) : n \in 0..MaxFactoryEntries, c \in BOOLEAN}

InitFactory ==
    /\ fContent \in FactorySources
    /\ fFlavor \in FlavorNames
    /\ fDesc \in Descriptions
    /\ fFirst = <<>>
    /\ fWrote = <<>>
    /\ fRaised = <<>>
    /\ fpc = "call"
    /\ IdleYaml
    /\ IdleMain
    /\ IdleBuild
    /\ IdleDocker

ApplyFactory(r) ==
    /\ fContent' = r.content
    /\ fWrote' = Append(fWrote, r.wrote)
    /\ fRaised' = Append(fRaised, r.raised)
    /\ fFirst' = IF fWrote = <<>> THEN r.content ELSE fFirst
    /\ fpc' = "ret"
    /\ UNCHANGED <<fFlavor, fDesc>>

\* Lines 88-117: the flavor is not found and the patched text is written.
FactoryWrites ==
    /\ fpc = "call"
    /\ \E r \in {UpdateFlavorFactory(fContent, fFlavor, fDesc)} :
           r.wrote /\ ApplyFactory(r)
    /\ UNCHANGED <<yamlVars, mainVars, buildVars, dockerVars>>

\* Lines 118-119: the flavor is found, nothing is written.
FactoryLeaves ==
    /\ fpc = "call"
    /\ \E r \in {UpdateFlavorFactory(fContent, fFlavor, fDesc)} :
           ~r.wrote /\ ~r.raised /\ ApplyFactory(r)
    /\ UNCHANGED <<yamlVars, mainVars, buildVars, dockerVars>>

\* Lines 120-122: index() or findall()[-1] raised; logged and re-raised.
FactoryRaises ==
    /\ fpc = "call"
    /\ \E r \in {UpdateFlavorFactory(fContent, fFlavor, fDesc)} :
           r.raised /\ ApplyFactory(r)
    /\ UNCHANGED <<yamlVars, mainVars, buildVars, dockerVars>>

\* update_flavor_factory is applied again with the same arguments.
FactoryAgain ==
    /\ fpc = "ret"
    /\ Len(fWrote) < MaxApplications
    /\ fpc' = "call"
    /\ UNCHANGED <<fContent, fFlavor, fDesc, fFirst, fWrote, fRaised>>
    /\ UNCHANGED <<yamlVars, mainVars, buildVars, dockerVars>>

NextFactory ==
    \/ FactoryWrites
    \/ FactoryLeaves
    \/ FactoryRaises
    \/ FactoryAgain

\* the text between the def line and the first "return flavors" after it
FunctionSection(content) ==
    LET start == Find(content, <<DefLine>>, 1)
        end == IF start = 0 THEN 0 ELSE Find(content, <<ReturnFlavors>>, start)
    IN  IF end = 0 THEN <<>> ELSE SubSeq(content, start, end - 1)

Occurrences(s, sub) == Cardinality({i \in 1..Len(s) : StartsAt(s, sub, i)})

\* C4: from the second application on the file is not written and the text
\* stays what the first application left; an application that writes puts
\* one key for the flavor into list_megalinter_flavors.
C4_FactoryIdempotent ==
    /\ \A k \in 2..Len(fWrote) : ~fWrote[k]
    /\ Len(fWrote) >= 1 => fContent = fFirst
    /\ (Len(fWrote) >= 1 /\ fWrote[1]) =>
           /\ Occurrences(FunctionSection(fContent),
                          <<Quote, fFlavor, Quote, ":">>) = 1
           /\ Occurrences(fContent,
                  <<Quote, fFlavor, Quote, ":", Space, "{", Quote, "label", Quote,
                    ":", Space, Quote>> \o fDesc \o <<Quote, "}", ",", Newline>>) = 1

\* C4 witness: the first application wrote the file and a second one ran.
C4_Witness ==
    /\ Len(fWrote) >= 2
    /\ fWrote[1]
    /\ ~fRaised[2]


-----------------------------------------------------------------------------
(* run_build_script: the parent, the build process and the two OS pipes *)

\* lines an OS pipe holds before a write to it blocks
PipeCap == 2
\* lines the build process (or docker) writes before it exits
MaxWrites == 3
\* largest exit code of an external process
MaxExit == 2

BuildScripts == UNION {[1..n -> {"out", "err"}] : n \in 0..MaxWrites}

\* Line 198: process.returncode != 0
ReturnCodeAboveOne(rc) == rc > 1
ReturnCodeIsFailure(rc) == rc # 0

ChildNext == IF child.alive /\ child.ip <= Len(child.script)
             THEN child.script[child.ip] ELSE "exit"

\* Lines 176-183: Popen starts build.py with stdout and stderr on two pipes.
BuildPopen ==
    /\ mpc = "build" /\ bpc = "idle"
    /\ \E sc \in BuildScripts, rc \in 0..MaxExit :
           child' = [script |-> sc, ip |-> 1, rc |-> rc, alive |-> TRUE]
    /\ bpc' = "reading"
    /\ events' = Append(events, "build_start")
    /\ UNCHANGED <<pipes, collected, returncode>>
    /\ UNCHANGED <<mpc, schemaEnum, schemaOk, mError, exitStatus>>
    /\ UNCHANGED <<yamlVars, factoryVars, dockerVars>>

\* build.py writes a line to stdout; the write blocks while the pipe is full.
ChildWritesStdout ==
    /\ child.alive /\ ChildNext = "out"
    /\ pipes.out < PipeCap
    /\ pipes' = [pipes EXCEPT !.out = @ + 1]
    /\ child' = [child EXCEPT !.ip = @ + 1]
    /\ UNCHANGED <<bpc, collected, returncode>>
    /\ UNCHANGED <<yamlVars, factoryVars, mainVars, dockerVars>>

\* build.py writes a line to stderr; the write blocks while the pipe is full.
ChildWritesStderr ==
    /\ child.alive /\ ChildNext = "err"
    /\ pipes.err < PipeCap
    /\ pipes' = [pipes EXCEPT !.err = @ + 1]
    /\ child' = [child EXCEPT !.ip = @ + 1]
    /\ UNCHANGED <<bpc, collected, returncode>>
    /\ UNCHANGED <<yamlVars, factoryVars, mainVars, dockerVars>>

\* build.py exits: both pipes are closed on its side.
ChildExits ==
    /\ child.alive /\ ChildNext = "exit"
    /\ child' = [child EXCEPT !.alive = FALSE]
    /\ UNCHANGED <<bpc, pipes, collected, returncode>>
    /\ UNCHANGED <<yamlVars, factoryVars, mainVars, dockerVars>>

\* Lines 187-188: the parent takes one line from stdout and logs it.
ParentReadsStdoutLine ==
    /\ bpc = "reading"
    /\ pipes.out > 0
    /\ pipes' = [pipes EXCEPT !.out = @ - 1]
    /\ collected' = [collected EXCEPT !.out = @ + 1]
    /\ UNCHANGED <<bpc, child, returncode>>
    /\ UNCHANGED <<yamlVars, factoryVars, mainVars, dockerVars>>

\* Line 187: stdout is at end-of-file (empty, and closed by the exit of the
\* build process); the for loop ends and communicate() is called.
ParentSeesStdoutEof ==
    /\ bpc = "reading"
    /\ pipes.out = 0 /\ ~child.alive
    /\ bpc' = "communicate"
    /\ UNCHANGED <<child, pipes, collected, returncode>>
    /\ UNCHANGED <<yamlVars, factoryVars, mainVars, dockerVars>>

\* Line 193: communicate() reads stderr.
CommunicateReadsStderr ==
    /\ bpc = "communicate"
    /\ pipes.err > 0
    /\ pipes' = [pipes EXCEPT !.err = @ - 1]
    /\ collected' = [collected EXCEPT !.err = @ + 1]
    /\ UNCHANGED <<bpc, child, returncode>>
    /\ UNCHANGED <<yamlVars, factoryVars, mainVars, dockerVars>>

\* Line 193: communicate() returns once both pipes are at end-of-file and the
\* process is reaped; returncode is set.
CommunicateReturns ==
    /\ bpc = "communicate"
    /\ pipes.err = 0 /\ pipes.out = 0 /\ ~child.alive
    /\ returncode' = child.rc
    /\ bpc' = "finished"
    /\ events' = Append(events, "build_exit")
    /\ UNCHANGED <<child, pipes, collected>>
    /\ UNCHANGED <<mpc, schemaEnum, schemaOk, mError, exitStatus>>
    /\ UNCHANGED <<yamlVars, factoryVars, dockerVars>>

\* the parent waits for stdout while the build process waits for room in
\* the stderr pipe
BuildDeadlocked ==
    /\ bpc = "reading"
    /\ pipes.out = 0
    /\ child.alive /\ ChildNext = "err"
    /\ pipes.err = PipeCap

-----------------------------------------------------------------------------
(* build_docker_image *)

\* Lines 221-222, 264-266: the Dockerfile is missing; FileNotFoundError is
\* logged and re-raised, main logs it and exits.
DockerfileMissing ==
    /\ mpc = "docker" /\ dpc = "idle"
    /\ events' = Append(events, "dockerfile_missing")
    /\ mError' = [kind |-> "FileNotFoundError", code |-> -1]
    /\ exitStatus' = 1
    /\ mpc' = "exit"
    /\ UNCHANGED <<schemaEnum, schemaOk>>
    /\ UNCHANGED <<yamlVars, factoryVars, buildVars, dockerVars>>

\* Lines 221-244: the Dockerfile exists; Popen starts docker build with stderr
\* merged into the stdout pipe.
DockerPopen ==
    /\ mpc = "docker" /\ dpc = "idle"
    /\ \E n \in 0..MaxWrites, rc \in 0..MaxExit :
           dchild' = [lines |-> n, rc |-> rc, alive |-> TRUE]
    /\ dpc' = "reading"
    /\ events' = Append(events, "docker_start")
    /\ UNCHANGED <<dPipe, dReturn>>
    /\ UNCHANGED <<mpc, schemaEnum, schemaOk, mError, exitStatus>>
    /\ UNCHANGED <<yamlVars, factoryVars, buildVars>>

\* docker writes a line of output.
DockerWrites ==
    /\ dchild.alive /\ dchild.lines > 0
    /\ dPipe < PipeCap
    /\ dPipe' = dPipe + 1
    /\ dchild' = [dchild EXCEPT !.lines = @ - 1]
    /\ UNCHANGED <<dpc, dReturn>>
    /\ UNCHANGED <<yamlVars, factoryVars, mainVars, buildVars>>

\* docker exits.
DockerExits ==
    /\ dchild.alive /\ dchild.lines = 0
    /\ dchild' = [dchild EXCEPT !.alive = FALSE]
    /\ UNCHANGED <<dpc, dPipe, dReturn>>
    /\ UNCHANGED <<yamlVars, factoryVars, mainVars, buildVars>>

\* Lines 248-249: readline returns a line, which is logged.
DockerParentReadsLine ==
    /\ dpc = "reading"
    /\ dPipe > 0
    /\ dPipe' = dPipe - 1
    /\ UNCHANGED <<dpc, dchild, dReturn>>
    /\ UNCHANGED <<yamlVars, factoryVars, mainVars, buildVars>>

\* Lines 248, 254: readline returns '' at end-of-file; process.wait() returns.
DockerWaitReturns ==
    /\ dpc = "reading"
    /\ dPipe = 0 /\ ~dchild.alive
    /\ dReturn' = dchild.rc
    /\ dpc' = "finished"
    /\ events' = Append(events, "docker_exit")
    /\ UNCHANGED <<dchild, dPipe>>
    /\ UNCHANGED <<mpc, schemaEnum, schemaOk, mError, exitStatus>>
    /\ UNCHANGED <<yamlVars, factoryVars, buildVars>>

-----------------------------------------------------------------------------
(* main *)

\* alphabetical order of the flavor names, for list.sort()
Rank(name) == CASE name = "all" -> 1
                [] name = "bio" -> 2
                [] name = "ci_light" -> 3
                [] OTHER -> 4

\* Lines 62-63: enum_flavors.append(new_flavor); enum_flavors.sort()
RECURSIVE InsertSorted(_, _)
InsertSorted(list, x) ==
    IF list = <<>> THEN <<x>>
    ELSE IF Rank(x) <= Rank(Head(list)) THEN <<x>> \o list
    ELSE <<Head(list)>> \o InsertSorted(Tail(list), x)

\* Lines 284, 53-69: update_schema_file returns.
MainUpdateSchema ==
    /\ mpc = "schema" /\ schemaOk
    /\ schemaEnum' = IF Contains(schemaEnum, NewFlavor) THEN schemaEnum
                     ELSE InsertSorted(schemaEnum, NewFlavor)
    /\ events' = Append(events, "schema_done")
    /\ mpc' = "factory"
    /\ fpc' = "call"
    /\ UNCHANGED <<schemaOk, mError, exitStatus>>
    /\ UNCHANGED <<fContent, fFlavor, fDesc, fFirst, fWrote, fRaised>>
    /\ UNCHANGED <<yamlVars, buildVars, dockerVars>>

\* Lines 70-72, 297-299: update_schema_file raises; main logs and exits.
MainSchemaRaises ==
    /\ mpc = "schema" /\ ~schemaOk
    /\ mError' = [kind |-> "Exception", code |-> -1]
    /\ exitStatus' = 1
    /\ mpc' = "exit"
    /\ UNCHANGED <<schemaEnum, schemaOk, events>>
    /\ UNCHANGED <<yamlVars, factoryVars, buildVars, dockerVars>>

\* Lines 285-286: update_flavor_factory returned; update_yaml_descriptors
\* is called.
MainFactoryReturned ==
    /\ mpc = "factory" /\ fpc = "ret" /\ ~fRaised[Len(fRaised)]
    /\ events' = Append(events, "factory_done")
    /\ mpc' = "descriptors"
    /\ pc' = "loop"
    /\ UNCHANGED <<schemaEnum, schemaOk, mError, exitStatus>>
    /\ UNCHANGED <<disk, before, components, idx, data, mem, opened, processed,
                   reported, cause, run>>
    /\ UNCHANGED <<factoryVars, buildVars, dockerVars>>

\* Lines 285, 297-299: update_flavor_factory raised; main logs and exits.
MainFactoryRaised ==
    /\ mpc = "factory" /\ fpc = "ret" /\ fRaised[Len(fRaised)]
    /\ mError' = [kind |-> "Exception", code |-> -1]
    /\ exitStatus' = 1
    /\ mpc' = "exit"
    /\ UNCHANGED <<schemaEnum, schemaOk, events>>
    /\ UNCHANGED <<yamlVars, factoryVars, buildVars, dockerVars>>

\* Lines 286-290: update_yaml_descriptors returned; run_build_script is called.
MainDescriptorsReturned ==
    /\ mpc = "descriptors" /\ pc = "returned"
    /\ events' = Append(events, "descriptors_done")
    /\ mpc' = "build"
    /\ UNCHANGED <<schemaEnum, schemaOk, mError, exitStatus>>
    /\ UNCHANGED <<yamlVars, factoryVars, buildVars, dockerVars>>

\* Lines 286, 297-299: update_yaml_descriptors raised; main logs and exits.
MainDescriptorsRaised ==
    /\ mpc = "descriptors" /\ pc = "raised"
    /\ mError' = [kind |-> "Exception", code |-> -1]
    /\ exitStatus' = 1
    /\ mpc' = "exit"
    /\ UNCHANGED <<schemaEnum, schemaOk, events>>
    /\ UNCHANGED <<yamlVars, factoryVars, buildVars, dockerVars>>

\* Lines 195-199, 290-294: the build script exited with 0; build_docker_image
\* is called.
MainBuildSucceeded ==
    /\ mpc = "build" /\ bpc = "finished"
    /\ ~ReturnCodeIsFailure(returncode)
    /\ mpc' = "docker"
    /\ UNCHANGED <<schemaEnum, schemaOk, events, mError, exitStatus>>
    /\ UNCHANGED <<yamlVars, factoryVars, buildVars, dockerVars>>

\* Lines 198-203, 297-299: a non-zero exit raises CalledProcessError, wrapped
\* in RuntimeError("Build script failed with return code N"); main logs the
\* message and exits with status 1.
MainBuildFailed ==
    /\ mpc = "build" /\ bpc = "finished"
    /\ ReturnCodeIsFailure(returncode)
    /\ mError' = [kind |-> "RuntimeError", code |-> returncode]
    /\ exitStatus' = 1
    /\ mpc' = "exit"
    /\ UNCHANGED <<schemaEnum, schemaOk, events>>
    /\ UNCHANGED <<yamlVars, factoryVars, buildVars, dockerVars>>

\* Lines 256-259, 295: docker exited with 0; main ends.
MainDockerSucceeded ==
    /\ mpc = "docker" /\ dpc = "finished"
    /\ dReturn = 0
    /\ mpc' = "done"
    /\ UNCHANGED <<schemaEnum, schemaOk, events, mError, exitStatus>>
    /\ UNCHANGED <<yamlVars, factoryVars, buildVars, dockerVars>>

\* Lines 256-263, 297-299: a non-zero exit raises CalledProcessError, wrapped
\* in RuntimeError("Docker build failed: ... exit status N"); main logs the
\* message and exits with status 1.
MainDockerFailed ==
    /\ mpc = "docker" /\ dpc = "finished"
    /\ dReturn # 0
    /\ mError' = [kind |-> "RuntimeError", code |-> dReturn]
    /\ exitStatus' = 1
    /\ mpc' = "exit"
    /\ UNCHANGED <<schemaEnum, schemaOk, events>>
    /\ UNCHANGED <<yamlVars, factoryVars, buildVars, dockerVars>>

\* documents of the stores main is run on
MainDocs ==
    {Doc("dict", "seq", <<>>, FALSE, <<>>),
     Doc("dict", "seq", <<Entry("dict", TRUE, "pylint", "list", <<>>)>>, TRUE, <<>>),
     Doc("dict", "seq", <<Entry("dict", TRUE, "pylint", "list", <<NewFlavor>>)>>,
         TRUE, <<NewFlavor>>),
     Doc("unparseable", "absent", <<>>, FALSE, <<>>)}

InitMain ==
    /\ mpc = "schema"
    /\ schemaEnum \in {<<"all", "ci_light">>, <<"all", "bio", "ci_light">>}
    /\ schemaOk \in BOOLEAN
    /\ events = <<>>
    /\ mError = NoError
    /\ exitStatus = -1
    /\ fContent \in {FactorySource(0, TRUE), FactorySource(1, TRUE),
                      UpdateFlavorFactory(FactorySource(1, TRUE), NewFlavor,
                                          <<"d">>).content}
    /\ fFlavor = NewFlavor
    /\ fDesc = <<"d">>
    /\ fFirst = <<>>
    /\ fWrote = <<>>
    /\ fRaised = <<>>
    /\ fpc = "idle"
    /\ disk \in [Files -> MainDocs]
    /\ before = disk
    /\ components = {"pylint"}
    /\ idx = 1
    /\ pc = "idle"
    /\ data = NoData
    /\ mem = [f \in Files |-> NoData]
    /\ opened = {}
    /\ processed = {}
    /\ reported = {}
    /\ cause = "none"
    /\ run = 1
    /\ IdleBuild
    /\ IdleDocker

NextMain ==
    \/ MainUpdateSchema
    \/ MainSchemaRaises
    \/ FactoryWrites
    \/ FactoryLeaves
    \/ FactoryRaises
    \/ MainFactoryReturned
    \/ MainFactoryRaised
    \/ ProcessUnchanged
    \/ ProcessAndOpen
    \/ DumpCompletes
    \/ DumpRaises
    \/ ProcessRaises
    \/ Return
    \/ MainDescriptorsReturned
    \/ MainDescriptorsRaised
    \/ BuildPopen
    \/ ChildWritesStdout
    \/ ChildWritesStderr
    \/ ChildExits
    \/ ParentReadsStdoutLine
    \/ ParentSeesStdoutEof
    \/ CommunicateReadsStderr
    \/ CommunicateReturns
    \/ MainBuildSucceeded
    \/ MainBuildFailed
    \/ DockerfileMissing
    \/ DockerPopen
    \/ DockerWrites
    \/ DockerExits
    \/ DockerParentReadsLine
    \/ DockerWaitReturns
    \/ MainDockerSucceeded
    \/ MainDockerFailed

-----------------------------------------------------------------------------
(* Properties of main and of run_build_script *)

Happened(e) == Contains(events, e)

\* C9: the build script starts only after the schema update, the factory
\* patch and the reconciliation have ended without error; docker starts only
\* after the build script exited with 0; neither is started twice; a non-zero
\* exit ends the run with the exit code in the error main reports; a missing
\* Dockerfile is reported with no docker process started.
C9_ExternalFailureFatal ==
    /\ Count(events, "build_start") <= 1
    /\ Count(events, "docker_start") <= 1
    /\ Happened("build_start") =>
           /\ Len(events) >= 4
           /\ SubSeq(events, 1, 4)
                  = <<"schema_done", "factory_done", "descriptors_done", "build_start">>
           /\ pc = "returned"
           /\ fpc = "ret" /\ ~fRaised[Len(fRaised)]
    /\ (Happened("docker_start") \/ mpc \in {"docker", "done"}) =>
           /\ Happened("build_exit")
           /\ bpc = "finished" /\ returncode = 0
    /\ (bpc = "finished" /\ returncode # 0) =>
           /\ mpc \in {"build", "exit"}
           /\ dpc = "idle"
           /\ mpc = "exit" =>
                  (mError = [kind |-> "RuntimeError", code |-> returncode]
                       /\ exitStatus = 1)
    /\ (dpc = "finished" /\ dReturn # 0) =>
           /\ mpc \in {"docker", "exit"}
           /\ mpc = "exit" =>
                  (mError = [kind |-> "RuntimeError", code |-> dReturn]
                       /\ exitStatus = 1)
    /\ Happened("dockerfile_missing") =>
           /\ ~Happened("docker_start") /\ dpc = "idle"
           /\ mpc = "exit" /\ mError.kind = "FileNotFoundError" /\ exitStatus = 1
    /\ mpc = "done" => (returncode = 0 /\ dReturn = 0 /\ exitStatus = -1)

\* C9 witness: the build script exited with a non-zero code and main exited.
C9_Witness ==
    /\ mpc = "exit"
    /\ bpc = "finished" /\ returncode = 2
    /\ collected.out > 0

\* C10: run_build_script is never in a state where the parent is blocked
\* reading stdout while the build process is blocked writing stderr.
C10_NoPipeDeadlock == ~BuildDeadlocked

Init ==
    /\ InitYaml
    /\ IdleFactory
    /\ IdleMain
    /\ IdleBuild
    /\ IdleDocker

Next == NextYaml

Spec == Init /\ [][Next]_vars

SpecFactory == InitFactory /\ [][NextFactory]_vars

SpecMain == InitMain /\ [][NextMain]_vars


=============================================================================
